---------------------------- MODULE Spec2Model ----------------------------
(***************************************************************************)
(* Session Guardian (token tracking hooks) and Session State Tool          *)
(* (save/load/list of snapshots on disk).                                  *)
(*                                                                         *)
(* Python values that may have the wrong shape are tagged records          *)
(* [t, v]: t is the Python type seen by the code ("int", "none", "str",    *)
(* "missing" for an absent key/attribute), v the integer when t = "int".   *)
(* Thresholds are floats in the code; here they are held in hundredths     *)
(* (soft_threshold = 60 stands for 0.60), and every comparison             *)
(* latest/context_window < threshold is done on cross-multiplied integers. *)
(***************************************************************************)
EXTENDS Integers, Sequences, FiniteSets, TLC

VARIABLES
    context_window,             \* TokenTracker.context_window
    soft_threshold,             \* TokenTracker.soft_threshold (hundredths)
    hard_threshold,             \* TokenTracker.hard_threshold (hundredths)
    latest_input_tokens,        \* TokenTracker.latest_input_tokens
    cumulative_output_tokens,   \* TokenTracker.cumulative_output_tokens
    turn_count,                 \* TokenTracker.turn_count
    event,                      \* the hook event handled last: [hook, data]
    result,                     \* what the last handler handed to the host
    history,                    \* per response event: <<input, output>> counts it reported
    hooks,                      \* coordinator.hooks: the registrations [event, name, priority]
    cleanup,                    \* the callable mount returned: "none", "returned", "called"
    coordinator,                \* SessionStateTool._coordinator
    dir_exists,                 \* Path(STATE_DIR).is_dir()
    files,                      \* the *.json files of STATE_DIR: name -> [text, mtime, readable]
    clock,                      \* datetime.now(timezone.utc), in ticks
    invocation,                 \* the input of the last execute() call
    tool_result,                \* the ToolResult it returned
    calls,                      \* execute() calls so far
    ticks,                      \* clock advances so far
    last_save,                  \* the last successful save, the path it reported, the
                                \* deletions that failed in its pruning pass, and what
                                \* was done since
    invocations,                \* execute() calls in progress side by side: per call its
                                \* position and locals
    removed                     \* the files that left the directory since Init

trackerVars == <<latest_input_tokens, cumulative_output_tokens, turn_count>>
configVars == <<context_window, soft_threshold, hard_threshold>>
guardianVars == <<context_window, soft_threshold, hard_threshold, latest_input_tokens,
                  cumulative_output_tokens, turn_count, event, result, history>>
mountVars == <<hooks, cleanup>>
diskVars == <<dir_exists, files>>
concVars == <<invocations, removed>>
storeVars == <<coordinator, dir_exists, files, clock, invocation, tool_result, calls,
               ticks, last_save, invocations, removed>>
vars == <<guardianVars, mountVars, storeVars>>

----------------------------------------------------------------------------
(* Bounds *)

\* Number of response events in one behaviour.
MaxTurns == 3
\* Largest usage, in hundredths of the context window, drawn by BandSpec.
MaxPct == 120
\* Number of execute() calls in one behaviour.
MaxCalls == 3
\* Number of clock advances in one behaviour.
MaxTicks == 1
\* Number of execute() calls running side by side in ConcSpec.
MaxInvocations == 2
\* Clock ticks per second: two saves can fall in one second at different instants.
TicksPerSecond == 2

----------------------------------------------------------------------------
(* Python values *)

PyInt(n) == [t |-> "int", v |-> n]
None == [t |-> "none", v |-> 0]
Missing == [t |-> "missing", v |-> 0]
\* A non-empty, non-numeric string (or any other truthy value without an order
\* against int): "x > 0" and "int + x" raise TypeError on it.
Str == [t |-> "str", v |-> 0]

\* "x or 0" with the .get / getattr default of 0 for an absent field.
OrZero(f) == IF f.t \in {"missing", "none"} \/ (f.t = "int" /\ f.v = 0) THEN PyInt(0) ELSE f

----------------------------------------------------------------------------
(* Configuration and events *)

DefaultContextWindow == 200000
DefaultSoftThreshold == 60
DefaultHardThreshold == 80

\* A configured value that is not a number (config.get returns whatever the
\* bundle configuration holds).
BadNumber == [t |-> "str", v |-> 0]

Cfg(cw, soft, hard) == [context_window |-> cw, soft_threshold |-> soft, hard_threshold |-> hard]

DefaultConfig == Cfg(PyInt(DefaultContextWindow), PyInt(DefaultSoftThreshold), PyInt(DefaultHardThreshold))

\* Configurations of the tracker in Spec.
Configs ==
    { DefaultConfig,
      Cfg(PyInt(100), PyInt(50), PyInt(80)),
      Cfg(BadNumber, PyInt(DefaultSoftThreshold), PyInt(DefaultHardThreshold)) }

\* Configurations of the tracker in BandSpec: every window of ContextWindows with
\* every ordered pair of thresholds, plus the degenerate ones the constructor
\* accepts unvalidated.
ContextWindows == {100, DefaultContextWindow}
Thresholds == {1, 25, 50, 60, 80, 100}
BandConfigs ==
    { Cfg(PyInt(cw), PyInt(s), PyInt(h)) : cw \in ContextWindows,
                                     s \in Thresholds, h \in Thresholds }
    \cup { Cfg(PyInt(0), PyInt(DefaultSoftThreshold), PyInt(DefaultHardThreshold)),
           Cfg(BadNumber, PyInt(DefaultSoftThreshold), PyInt(DefaultHardThreshold)),
           Cfg(PyInt(100), BadNumber, PyInt(DefaultHardThreshold)),
           Cfg(PyInt(100), PyInt(50), BadNumber) }

InputCounts == {0, 45, 60, 85}
OutputCounts == {0, 50}
InputFields == {Missing, None, Str} \cup {PyInt(n) : n \in InputCounts}
OutputFields == {Missing, Str} \cup {PyInt(n) : n \in OutputCounts}

\* data["usage"]: absent or None; a dict; an object with attributes; or an
\* object whose attribute access raises.
NoUsage == [shape |-> "none", input_tokens |-> Missing, output_tokens |-> Missing]
RaisingUsage == [shape |-> "raising", input_tokens |-> Missing, output_tokens |-> Missing]
Usages ==
    {NoUsage, RaisingUsage}
    \cup [shape : {"dict", "object"}, input_tokens : InputFields, output_tokens : OutputFields]

\* The payload of an event: the dict the host passes to its hooks.
ResponseData == [kind : {"dict"}, usage : Usages]
RequestData == [kind |-> "dict", usage |-> NoUsage]

----------------------------------------------------------------------------
(* HookResult *)

NoMsg == [text |-> "none"]

HookResult(action, injection, role, ephemeral, user_message, level) ==
    [action |-> action, context_injection |-> injection,
     context_injection_role |-> role, ephemeral |-> ephemeral,
     user_message |-> user_message, user_message_level |-> level]

\* HookResult(action="continue"): nothing else is passed.
Continue == HookResult("continue", NoMsg, "unset", "unset", NoMsg, "unset")
\* An exception leaving the handler.
Raised == HookResult("raise", NoMsg, "unset", "unset", NoMsg, "unset")
NoResult == HookResult("none", NoMsg, "unset", "unset", NoMsg, "unset")

----------------------------------------------------------------------------
(* TokenTracker *)

\* Quotients k/100 whose double, times 100, falls just below k, so that
\* int(pct * 100) gives k - 1 (IEEE-754 binary64, k < 260).
FloatTruncated == {29, 57, 58, 113, 114, 115, 116, 201, 203, 205, 207, 226, 228,
                   230, 232, 251, 253, 255}

\* TokenTracker.usage_pct as the fraction <<numerator, denominator>>; the
\* comparison "context_window <= 0" raises TypeError on a non-number.
usage_pct_cumulative ==
    IF context_window.t # "int" THEN [raised |-> TRUE, num |-> 0, den |-> 1]
    ELSE IF context_window.v <= 0 THEN [raised |-> FALSE, num |-> 0, den |-> 1]
    ELSE [raised |-> FALSE, num |-> latest_input_tokens + cumulative_output_tokens,
          den |-> context_window.v]

usage_pct ==
    IF context_window.t # "int" THEN [raised |-> TRUE, num |-> 0, den |-> 1]
    ELSE IF context_window.v <= 0 THEN [raised |-> FALSE, num |-> 0, den |-> 1]
    ELSE [raised |-> FALSE, num |-> latest_input_tokens, den |-> context_window.v]

\* int(pct * 100): the floor of the double product.
PctInt(pct) ==
    LET q == (100 * pct.num) \div pct.den
    IN IF (100 * pct.num) % pct.den = 0 /\ q \in FloatTruncated THEN q - 1 ELSE q

\* pct < threshold, threshold in hundredths.
AtOrBelowThreshold(pct, threshold) == 100 * pct.num <= threshold * pct.den

BelowThreshold(pct, threshold) == 100 * pct.num < threshold * pct.den

----------------------------------------------------------------------------
(* _extract_tokens *)

extract_tokens(usage) ==
    IF usage.shape = "none" THEN <<PyInt(0), PyInt(0)>>
    ELSE IF usage.shape = "dict"
        THEN <<OrZero(usage.input_tokens), OrZero(usage.output_tokens)>>
    ELSE IF usage.shape = "object"
        THEN <<OrZero(usage.input_tokens), OrZero(usage.output_tokens)>>
    ELSE <<PyInt(0), PyInt(0)>>     \* except Exception: return 0, 0

----------------------------------------------------------------------------
(* _handle_response *)

\* "if input_tokens > 0: tracker.latest_input_tokens = input_tokens"
StoreInputAccumulates(latest, input_tokens) == latest + input_tokens

StoreInput(latest, input_tokens) == IF input_tokens > 0 THEN input_tokens ELSE latest

\* The try block: the tracker fields it leaves behind and whether it raised.
ResponseBody(data) ==
    LET same == [latest_input_tokens |-> latest_input_tokens,
                 cumulative_output_tokens |-> cumulative_output_tokens,
                 turn_count |-> turn_count, raised |-> TRUE]
    IN IF data.kind # "dict" THEN same                      \* data.get: AttributeError
       ELSE LET tokens == extract_tokens(data.usage)
                input_tokens == tokens[1]
                output_tokens == tokens[2]
            IN IF input_tokens.t # "int" THEN same          \* str > 0: TypeError
               ELSE LET latest == StoreInput(latest_input_tokens, input_tokens.v)
                    IN IF output_tokens.t # "int"           \* int += str: TypeError
                       THEN [same EXCEPT !.latest_input_tokens = latest]
                       ELSE [latest_input_tokens |-> latest,
                             cumulative_output_tokens |->
                                 cumulative_output_tokens + output_tokens.v,
                             turn_count |-> turn_count + 1,
                             \* logger.debug evaluates tracker.usage_pct * 100
                             raised |-> usage_pct.raised]

\* "except Exception: logger.debug(...)" then "return HookResult(action='continue')"
ResponseReturnPropagates(raised) == IF raised THEN Raised ELSE Continue

ResponseReturn(raised) == Continue

\* The counts a response event reports, a missing or wrongly-shaped field read as 0.
Count(f) == IF f.t = "int" THEN f.v ELSE 0
Reported(data) ==
    IF data.kind = "dict" /\ data.usage.shape \in {"dict", "object"}
    THEN <<Count(data.usage.input_tokens), Count(data.usage.output_tokens)>>
    ELSE <<0, 0>>

ProviderResponse ==
    \E data \in ResponseData :
        /\ Len(history) < MaxTurns
        /\ LET body == ResponseBody(data)
           IN /\ latest_input_tokens' = body.latest_input_tokens
              /\ cumulative_output_tokens' = body.cumulative_output_tokens
              /\ turn_count' = body.turn_count
              /\ result' = ResponseReturn(body.raised)
        /\ event' = [hook |-> "provider:response", data |-> data]
        /\ history' = Append(history, Reported(data))
        /\ UNCHANGED <<configVars, mountVars, storeVars>>

----------------------------------------------------------------------------
(* _handle_request *)

StatusMsg(pct_int, turn) == [text |-> "context used, turn", pct |-> pct_int, turn |-> turn]
SoftMsg(pct_int) == [text |-> "save progress", pct |-> pct_int]
HardMsg(pct_int) == [text |-> "HANDOFF REQUIRED", pct |-> pct_int]
SoftUserMsg(pct_int) == [text |-> "saving progress recommended", pct |-> pct_int]
HardUserMsg(pct_int) == [text |-> "handoff required!", pct |-> pct_int]

Inject(msg, user_message, level) ==
    HookResult("inject_context", msg, "system", "True", user_message, level)

\* The try block: the HookResult it returns, or that it raised.
RequestBody ==
    LET pct == usage_pct
        failed == [raised |-> TRUE, value |-> NoResult]
        return(r) == [raised |-> FALSE, value |-> r]
    IN IF pct.raised THEN failed
       ELSE LET pct_int == PctInt(pct)
                turn == turn_count
            IN IF soft_threshold.t # "int" THEN failed      \* float < str: TypeError
               ELSE IF BelowThreshold(pct, soft_threshold.v)
                   THEN return(Inject(StatusMsg(pct_int, turn), NoMsg, "unset"))
               ELSE IF hard_threshold.t # "int" THEN failed
               ELSE IF BelowThreshold(pct, hard_threshold.v)
                   THEN return(Inject(SoftMsg(pct_int), SoftUserMsg(pct_int), "warning"))
               ELSE return(Inject(HardMsg(pct_int), HardUserMsg(pct_int), "error"))

\* "except Exception: ... return HookResult(action='continue')"
RequestReturnPropagates(body) == IF body.raised THEN Raised ELSE body.value

RequestReturn(body) == IF body.raised THEN Continue ELSE body.value

ProviderRequest ==
    /\ result' = RequestReturn(RequestBody)
    /\ event' = [hook |-> "provider:request", data |-> RequestData]
    /\ UNCHANGED <<configVars, trackerVars, history, mountVars, storeVars>>

----------------------------------------------------------------------------
(* mount *)

\* coordinator.hooks.register(event, handler, priority=..., name=...)
Register(hs, event_name, name, priority) ==
    hs \cup {[event |-> event_name, name |-> name, priority |-> priority]}

\* An unregister callable that does nothing.
UnregisterNothing(hs, name) == hs

\* The callable register returned for the handler of that name, called.
Unregister(hs, name) == {h \in hs : h.name # name}

\* The two register calls of mount.
Registered(hs) ==
    Register(Register(hs, "provider:response", "guardian_tracker", 10),
             "provider:request", "guardian_injector", 5)

\* The guardian as mount leaves it.
Mounted == hooks = Registered({}) /\ cleanup = "returned"

\* The config argument of mount: None or {} (every key absent), or a dict with
\* some of the keys.
NoConfig == Cfg(Missing, Missing, Missing)
MountConfigs == {NoConfig, Cfg(PyInt(100), PyInt(50), Missing)}

\* config.get(key, default)
Get(v, default) == IF v = Missing THEN default ELSE v

\* TokenTracker(config)
TokenTracker(config) ==
    [context_window |-> Get(config.context_window, PyInt(DefaultContextWindow)),
     soft_threshold |-> Get(config.soft_threshold, PyInt(DefaultSoftThreshold)),
     hard_threshold |-> Get(config.hard_threshold, PyInt(DefaultHardThreshold)),
     latest_input_tokens |-> 0, cumulative_output_tokens |-> 0, turn_count |-> 0]

\* mount(coordinator, config)
Mount ==
    \E config \in MountConfigs :
        /\ cleanup = "none"
        /\ LET tracker == TokenTracker(config)
           IN /\ context_window' = tracker.context_window
              /\ soft_threshold' = tracker.soft_threshold
              /\ hard_threshold' = tracker.hard_threshold
              /\ latest_input_tokens' = tracker.latest_input_tokens
              /\ cumulative_output_tokens' = tracker.cumulative_output_tokens
              /\ turn_count' = tracker.turn_count
        /\ hooks' = Registered(hooks)
        /\ cleanup' = "returned"
        /\ UNCHANGED <<event, result, history, storeVars>>

\* cleanup(): unreg_response() then unreg_request()
Cleanup ==
    /\ cleanup = "returned"
    /\ hooks' = Unregister(Unregister(hooks, "guardian_tracker"), "guardian_injector")
    /\ cleanup' = "called"
    /\ UNCHANGED <<guardianVars, storeVars>>

\* The host calls the handlers registered for an event.
HasHandler(event_name, name) == \E h \in hooks : h.event = event_name /\ h.name = name

EmitResponse == HasHandler("provider:response", "guardian_tracker") /\ ProviderResponse

EmitRequest == HasHandler("provider:request", "guardian_injector") /\ ProviderRequest

----------------------------------------------------------------------------
(* Session State Tool: values *)

SCHEMA_VERSION == 1
PRUNE_DAYS == 7
SecondsPerDay == 86400

\* timedelta(days=PRUNE_DAYS), in ticks.
PruneWindow == PRUNE_DAYS * SecondsPerDay * TicksPerSecond

\* JSON values: [str |-> s], [list |-> <<...>>], [int |-> n], [obj |-> <<...>>];
\* Absent is a key that is not there (input.get gives None).
Absent == [absent |-> TRUE]
S(s) == [str |-> s]
L(l) == [list |-> l]

\* "not input.get(f)"
Falsy(v) == v \in {Absent, S(""), L(<<>>), [obj |-> <<>>]}

ToolInput(operation, summary, accomplished, remaining, decisions, context) ==
    [operation |-> operation, summary |-> summary, accomplished |-> accomplished,
     remaining |-> remaining, decisions |-> decisions, context |-> context]

Summaries == {S("s1")}
SomeContext == [obj |-> <<[key |-> "branch", value |-> S("main")]>>]

\* Saves with every required field present and non-empty.
ValidSaves ==
    { ToolInput("save_state", s, L(<<"a">>), L(<<"r">>), o[1], o[2]) :
        s \in Summaries,
        o \in { <<Absent, Absent>>, <<L(<<>>), SomeContext>>, <<L(<<"d">>), Absent>> } }

\* Saves with at least one required field absent or empty.
InvalidSaves ==
    { ToolInput("save_state", s, a, r, Absent, Absent) :
        s \in {S(""), S("s1")}, a \in {L(<<>>), L(<<"a">>)},
        r \in {Absent, L(<<"r">>)} }
    \ ValidSaves

\* "None" is an input without "operation".
OtherInputs ==
    { ToolInput(op, Absent, Absent, Absent, Absent, Absent) :
        op \in {"load_state", "list_states", "delete_state", "None"} }

ToolInputs == ValidSaves \cup InvalidSaves \cup OtherInputs

NoInput == ToolInput("none", Absent, Absent, Absent, Absent, Absent)

\* coordinator.config: not there, a dict, or an object.
Coordinators ==
    { [config |-> "none", session_id |-> Absent],
      [config |-> "dict", session_id |-> S("sess-1")] }

\* ToolResult(output=...) and ToolResult(error=...)
Output(o) == [output |-> o, error |-> Absent]
Error(e) == [output |-> Absent, error |-> e]
NoToolResult == [output |-> Absent, error |-> Absent]

----------------------------------------------------------------------------
(* json.dumps / json.loads: a text is a sequence of tokens *)

Open == [tok |-> "{"]
Close == [tok |-> "}"]
Newline == [tok |-> "\n"]
\* A file that is not JSON (cut short, overwritten).
Malformed == <<Open, [tok |-> "garbage"]>>
\* A file whose bytes are not UTF-8.
Undecodable == <<[byte |-> 255]>>

IsMember(t) == DOMAIN t = {"key", "value"}

\* json.dumps(d, indent=2) of a dict given as its members in insertion order.
JsonDumps(d) == <<Open>> \o d \o <<Close>>

RECURSIVE Strip(_)
\* Trailing whitespace, which json.loads accepts.
Strip(text) ==
    IF text # <<>> /\ text[Len(text)] = Newline
    THEN Strip(SubSeq(text, 1, Len(text) - 1))
    ELSE text

\* json.loads: the members of the object, or JSONDecodeError.
JsonLoads(text) ==
    LET body == Strip(text)
    IN IF /\ Len(body) >= 2
          /\ body[1] = Open
          /\ body[Len(body)] = Close
          /\ \A i \in 2..(Len(body) - 1) : IsMember(body[i])
       THEN [raised |-> FALSE, value |-> SubSeq(body, 2, Len(body) - 1)]
       ELSE [raised |-> TRUE, value |-> <<>>]

----------------------------------------------------------------------------
(* The state directory *)

NoFiles == [n \in {} |-> 0]
Names(fs) == DOMAIN fs
Put(fs, name, file) == [n \in Names(fs) \cup {name} |-> IF n = name THEN file ELSE fs[n]]
Remove(fs, names) == [n \in Names(fs) \ names |-> fs[n]]

\* A file name that keeps the fraction of the second.
FileNameByTick(now) == now

\* now.strftime("%Y-%m-%dT%H-%M-%S") + ".json": the second of now. Names of this
\* fixed-width form sort as their seconds do.
FileName(now) == now \div TicksPerSecond

Max(ns) == CHOOSE n \in ns : \A m \in ns : m <= n
Min(ns) == CHOOSE n \in ns : \A m \in ns : n <= m
RECURSIVE SortedForward(_)
\* sorted(...) without reverse=True.
SortedForward(ns) ==
    IF ns = {} THEN <<>> ELSE <<Min(ns)>> \o SortedForward(ns \ {Min(ns)})

RECURSIVE SortedReverse(_)
\* sorted(state_dir.glob("*.json"), reverse=True)
SortedReverse(ns) ==
    IF ns = {} THEN <<>> ELSE <<Max(ns)>> \o SortedReverse(ns \ {Max(ns)})

\* st_size of a file.
Size(text) == Len(text)

\* latest.read_text(encoding="utf-8"): the text, OSError when the file cannot be
\* opened, UnicodeDecodeError when its bytes are not UTF-8.
ReadText(file) ==
    IF ~file.readable THEN [raised |-> "OSError", value |-> <<>>]
    ELSE IF file.text = Undecodable THEN [raised |-> "UnicodeDecodeError", value |-> <<>>]
    ELSE [raised |-> "none", value |-> file.text]

----------------------------------------------------------------------------
(* SessionStateTool *)

\* _get_session_id
get_session_id ==
    IF coordinator.config = "none" THEN Absent
    ELSE IF coordinator.config = "dict" THEN coordinator.session_id
    ELSE coordinator.session_id

RequiredFieldsWithoutRemaining == <<"summary", "accomplished">>

RequiredFields == <<"summary", "accomplished", "remaining">>

\* [f for f in (...) if not input.get(f)]
MissingFields(input) == SelectSeq(RequiredFields, LAMBDA f : Falsy(input[f]))

Member(k, v) == [key |-> k, value |-> v]

\* The optional members, added only when truthy.
OptionalMembersWithoutContext(input) ==
    IF Falsy(input.decisions) THEN <<>> ELSE <<Member("decisions", input.decisions)>>

OptionalMembers(input) ==
    (IF Falsy(input.decisions) THEN <<>> ELSE <<Member("decisions", input.decisions)>>)
    \o (IF Falsy(input.context) THEN <<>> ELSE <<Member("context", input.context)>>)

\* The state document of _save_state.
BuildState(input, now) ==
    << Member("version", [int |-> SCHEMA_VERSION]),
       Member("timestamp", [iso |-> now]),
       Member("summary", input.summary),
       Member("accomplished", input.accomplished),
       Member("remaining", input.remaining) >>
    \o OptionalMembers(input)
    \o (IF Falsy(get_session_id) THEN <<>> ELSE <<Member("session_id", get_session_id)>>)

ExpiredAtCutoff(fs, now) == {n \in Names(fs) : fs[n].mtime <= now - PruneWindow}

\* The files whose mtime is before now - timedelta(days=PRUNE_DAYS).
Expired(fs, now) == {n \in Names(fs) : fs[n].mtime < now - PruneWindow}

\* A pass that stops at the first deletion that fails.
prune_old_states_aborting(fs, now, unlink_fails) ==
    IF unlink_fails = {}
    THEN [files |-> Remove(fs, Expired(fs, now)), pruned |-> Cardinality(Expired(fs, now))]
    ELSE [files |-> fs, pruned |-> 0]

\* _prune_old_states: unlink raises on the files of unlink_fails, which the
\* except swallows.
prune_old_states(fs, now, unlink_fails) ==
    LET unlinked == Expired(fs, now) \ unlink_fails
    IN [files |-> Remove(fs, unlinked), pruned |-> Cardinality(unlinked)]

Returned(dir, fs, r) == [dir_exists |-> dir, files |-> fs, raised |-> FALSE, value |-> r]
Raises(dir, fs, exc) == [dir_exists |-> dir, files |-> fs, raised |-> TRUE, value |-> exc]

\* _save_state; write_ok: whether filepath.write_text could open the file.
save_state(input, write_ok, unlink_fails) ==
    LET missing == MissingFields(input)
    IN IF missing # <<>>
       THEN Returned(dir_exists, files, Error([msg |-> "save_state requires", fields |-> missing]))
       ELSE LET now == clock
                filename == FileName(now)
                state == BuildState(input, now)
            IN IF ~write_ok
               THEN Raises(TRUE, files, "OSError")     \* after state_dir.mkdir
               ELSE LET written == Put(files, filename,
                                       [text |-> JsonDumps(state) \o <<Newline>>,
                                        mtime |-> clock, readable |-> TRUE])
                        p == prune_old_states(written, now, unlink_fails)
                    IN Returned(TRUE, p.files,
                           Output(IF p.pruned = 0
                                  THEN [msg |-> "State saved to", path |-> filename]
                                  ELSE [msg |-> "State saved to", path |-> filename,
                                        pruned |-> p.pruned,
                                        plural |-> IF p.pruned # 1 THEN "s" ELSE ""]))

NoDirectoryFresh == "No session state directory found. This appears to be a fresh session."
NoFilesFresh == "No state files found. This appears to be a fresh session."

\* _load_state from "latest = files[0]" on: read, parse, return.
read_latest(latest) ==
    LET read == ReadText(files[latest])
        content == JsonLoads(read.value)
    IN IF read.raised = "UnicodeDecodeError"
       THEN Raises(dir_exists, files, "UnicodeDecodeError")  \* not caught here
       ELSE IF read.raised = "OSError" \/ content.raised
       THEN Returned(dir_exists, files, Error([msg |-> "Failed to read", path |-> latest]))
       ELSE Returned(dir_exists, files, Output(JsonDumps(content.value)))

\* A load that makes the state directory as a save does.
load_state_creating_directory ==
    LET sorted == SortedReverse(Names(files))
    IN IF sorted = <<>>
       THEN Returned(TRUE, files, Output([msg |-> NoFilesFresh]))
       ELSE read_latest(sorted[1])

\* _load_state
load_state ==
    IF ~dir_exists
    THEN Returned(dir_exists, files, Output([msg |-> NoDirectoryFresh]))
    ELSE LET sorted == SortedReverse(Names(files))
         IN IF sorted = <<>>
            THEN Returned(dir_exists, files, Output([msg |-> NoFilesFresh]))
            ELSE read_latest(sorted[1])

\* _list_states
list_states ==
    IF ~dir_exists
    THEN Returned(dir_exists, files, Output([msg |-> "No session state directory found."]))
    ELSE LET sorted == SortedReverse(Names(files))
         IN IF sorted = <<>>
            THEN Returned(dir_exists, files, Output([msg |-> "No state files found."]))
            ELSE Returned(dir_exists, files,
                     Output([msg |-> "Found state file(s)", count |-> Len(sorted),
                             entries |-> [i \in 1..Len(sorted) |->
                                            [name |-> sorted[i],
                                             size |-> Size(files[sorted[i]].text)]]]))

Operations == {"save_state", "load_state", "list_states"}

\* A dispatch that hands on what an operation raises as it is, unconverted.
execute_propagating(input, write_ok, unlink_fails) ==
    LET operation == input.operation
        done == IF operation = "save_state" THEN save_state(input, write_ok, unlink_fails)
                ELSE IF operation = "load_state" THEN load_state
                ELSE IF operation = "list_states" THEN list_states
                ELSE Returned(dir_exists, files,
                         Error([msg |-> "Unknown operation", operation |-> operation]))
    IN IF done.raised THEN [done EXCEPT !.value = Error([raised |-> done.value])] ELSE done

\* execute: the dispatch and its "except Exception".
execute(input, write_ok, unlink_fails) ==
    LET operation == input.operation
        done == IF operation = "save_state" THEN save_state(input, write_ok, unlink_fails)
                ELSE IF operation = "load_state" THEN load_state
                ELSE IF operation = "list_states" THEN list_states
                ELSE Returned(dir_exists, files,
                         Error([msg |-> "Unknown operation", operation |-> operation]))
    IN IF done.raised
       THEN [done EXCEPT !.value = Error([msg |-> "session_state failed",
                                          operation |-> operation, exc |-> done.value])]
       ELSE done

NoSave ==
    [input |-> NoInput, at |-> 0, path |-> 0, before |-> 0, failed |-> {}, since |-> <<>>]

SavedOk(input, r) == input.operation = "save_state" /\ r.error = Absent

\* One call of the tool.
Execute ==
    \E input \in ToolInputs, write_ok \in BOOLEAN, unlink_fails \in SUBSET Names(files) :
        /\ calls < MaxCalls
        \* the environment's choices, where the call makes them
        /\ input \notin ValidSaves => write_ok /\ unlink_fails = {}
        /\ unlink_fails \subseteq Expired(files, clock)
        /\ LET done == execute(input, write_ok, unlink_fails)
           IN /\ dir_exists' = done.dir_exists
              /\ files' = done.files
              /\ tool_result' = done.value
              /\ last_save' =
                    IF SavedOk(input, done.value)
                    THEN [input |-> input, at |-> clock, path |-> done.value.output.path,
                          before |-> Cardinality(Names(files)),
                          failed |-> unlink_fails, since |-> <<>>]
                    ELSE [last_save EXCEPT !.since = Append(@, input.operation)]
        /\ invocation' = input
        /\ calls' = calls + 1
        /\ UNCHANGED <<guardianVars, mountVars, coordinator, clock, ticks, concVars>>

\* Time passes: an instant, a second, or more than the retention window.
Delays == {1, TicksPerSecond, PruneWindow + 1}

Tick ==
    \E d \in Delays :
        /\ ticks < MaxTicks
        /\ clock' = clock + d
        /\ ticks' = ticks + 1
        /\ UNCHANGED <<guardianVars, mountVars, coordinator, diskVars, invocation, tool_result,
                       calls, last_save, concVars>>

----------------------------------------------------------------------------
(* execute() calls side by side: one step per access to the directory *)

Invocations == 1..MaxInvocations

\* A call that has not started. pending: the files globbed by the pruning pass
\* and not yet visited; sorted: those globbed by list_states and not yet
\* visited; target: the file about to be removed or read; swallowed: the
\* exceptions the pruning pass swallowed.
NotStarted ==
    [pc |-> "idle", input |-> NoInput, pending |-> {}, sorted |-> <<>>, entries |-> <<>>,
     target |-> 0, pruned |-> 0, swallowed |-> 0, result |-> NoToolResult]

\* No call in progress.
Quiet == invocations = [p \in Invocations |-> NotStarted] /\ removed = {}

\* The inputs of the calls running side by side: a valid save, a load, a list.
ConcurrentInputs ==
    { ToolInput("save_state", S("s1"), L(<<"a">>), L(<<"r">>), Absent, Absent) }
    \cup { ToolInput(op, Absent, Absent, Absent, Absent, Absent) :
             op \in {"load_state", "list_states"} }

\* The result of a save that wrote filename and pruned n files.
Saved(filename, n) ==
    Output(IF n = 0
           THEN [msg |-> "State saved to", path |-> filename]
           ELSE [msg |-> "State saved to", path |-> filename,
                 pruned |-> n, plural |-> IF n # 1 THEN "s" ELSE ""])

\* The result execute makes of an exception.
Failed(operation, exc) ==
    Error([msg |-> "session_state failed", operation |-> operation, exc |-> exc])

Finished(inv, r) == [inv EXCEPT !.pc = "done", !.result = r]

\* A count that goes up whether or not unlink raised.
CountUnlinkAlways(pruned, raised) == pruned + 1

\* "f.unlink(); pruned += 1": the count goes up only when unlink returned.
CountUnlink(pruned, raised) == IF raised THEN pruned ELSE pruned + 1

\* The pruning pass after a file: the next file, or the return of _save_state.
AfterFile(inv) ==
    IF inv.pending = {}
    THEN Finished(inv, Saved(FileName(clock), inv.pruned))
    ELSE [inv EXCEPT !.pc = "prune"]

\* The call starts and runs up to its first access to the files: a save writes
\* its snapshot; load_state and list_states glob the directory.
Begin(p) ==
    \E input \in ConcurrentInputs :
        /\ invocations[p].pc = "idle"
        /\ LET inv == [invocations[p] EXCEPT !.input = input]
               sorted == SortedReverse(Names(files))
           IN IF input.operation = "save_state"
              THEN /\ dir_exists' = TRUE
                   /\ files' = Put(files, FileName(clock),
                                   [text |-> JsonDumps(BuildState(input, clock)) \o <<Newline>>,
                                    mtime |-> clock, readable |-> TRUE])
                   /\ invocations' = [invocations EXCEPT ![p] = [inv EXCEPT !.pc = "glob"]]
              ELSE /\ UNCHANGED diskVars
                   /\ invocations' = [invocations EXCEPT ![p] =
                         IF input.operation = "load_state"
                         THEN IF ~dir_exists THEN Finished(inv, Output([msg |-> NoDirectoryFresh]))
                              ELSE IF sorted = <<>>
                              THEN Finished(inv, Output([msg |-> NoFilesFresh]))
                              ELSE [inv EXCEPT !.pc = "read", !.target = sorted[1]]
                         ELSE IF ~dir_exists
                              THEN Finished(inv, Output([msg |-> "No session state directory found."]))
                              ELSE IF sorted = <<>>
                              THEN Finished(inv, Output([msg |-> "No state files found."]))
                              ELSE [inv EXCEPT !.pc = "stat", !.sorted = sorted]]
        /\ UNCHANGED <<guardianVars, mountVars, coordinator, clock, invocation, tool_result,
                       calls, ticks, last_save, removed>>

\* _prune_old_states: state_dir.glob("*.json")
Glob(p) ==
    /\ invocations[p].pc = "glob"
    /\ invocations' = [invocations EXCEPT ![p] =
                          [@ EXCEPT !.pc = "prune", !.pending = Names(files)]]
    /\ UNCHANGED <<guardianVars, mountVars, coordinator, diskVars, clock, invocation,
                   tool_result, calls, ticks, last_save, removed>>

\* _prune_old_states: f.stat() and the comparison with the cutoff, for one of the
\* globbed files; a file that is gone raises, which the except swallows.
Stat(p) ==
    \E f \in invocations[p].pending :
        /\ invocations[p].pc = "prune"
        /\ LET inv == [invocations[p] EXCEPT !.pending = @ \ {f}]
           IN invocations' = [invocations EXCEPT ![p] =
                 IF f \notin Names(files)
                 THEN AfterFile([inv EXCEPT !.swallowed = @ + 1])
                 ELSE IF f \in Expired(files, clock)
                 THEN [inv EXCEPT !.pc = "unlink", !.target = f]
                 ELSE AfterFile(inv)]
        /\ UNCHANGED <<guardianVars, mountVars, coordinator, diskVars, clock, invocation,
                       tool_result, calls, ticks, last_save, removed>>

\* _prune_old_states: f.unlink() and pruned += 1; a file that is gone raises,
\* which the except swallows.
Unlink(p) ==
    /\ invocations[p].pc = "unlink"
    /\ LET inv == invocations[p]
           raised == inv.target \notin Names(files)
       IN /\ files' = Remove(files, {inv.target})
          /\ removed' = removed \cup (Names(files) \cap {inv.target})
          /\ invocations' = [invocations EXCEPT ![p] =
                AfterFile([inv EXCEPT !.pruned = CountUnlink(@, raised),
                                      !.swallowed = IF raised THEN @ + 1 ELSE @])]
    /\ UNCHANGED <<guardianVars, mountVars, coordinator, dir_exists, clock, invocation,
                   tool_result, calls, ticks, last_save>>

\* _load_state: latest.read_text and json.loads; a file that is gone raises
\* FileNotFoundError, an OSError.
Read(p) ==
    /\ invocations[p].pc = "read"
    /\ LET inv == invocations[p]
           done == IF inv.target \in Names(files)
                   THEN read_latest(inv.target)
                   ELSE Returned(dir_exists, files,
                            Error([msg |-> "Failed to read", path |-> inv.target]))
       IN invocations' = [invocations EXCEPT ![p] =
             Finished(inv, IF done.raised THEN Failed("load_state", done.value)
                           ELSE done.value)]
    /\ UNCHANGED <<guardianVars, mountVars, coordinator, diskVars, clock, invocation,
                   tool_result, calls, ticks, last_save, removed>>

\* _list_states: f.stat().st_size for the next globbed file; a file that is gone
\* raises FileNotFoundError, which only execute catches.
StatEntry(p) ==
    /\ invocations[p].pc = "stat"
    /\ LET inv == invocations[p]
           f == Head(inv.sorted)
           entries == Append(inv.entries, [name |-> f, size |-> Size(files[f].text)])
       IN invocations' = [invocations EXCEPT ![p] =
             IF f \notin Names(files)
             THEN Finished(inv, Failed("list_states", "FileNotFoundError"))
             ELSE IF Tail(inv.sorted) = <<>>
             THEN Finished([inv EXCEPT !.sorted = <<>>, !.entries = entries],
                           Output([msg |-> "Found state file(s)", count |-> Len(entries),
                                   entries |-> entries]))
             ELSE [inv EXCEPT !.sorted = Tail(@), !.entries = entries]]
    /\ UNCHANGED <<guardianVars, mountVars, coordinator, diskVars, clock, invocation,
                   tool_result, calls, ticks, last_save, removed>>

----------------------------------------------------------------------------
(* Specifications *)

NoEvent == [hook |-> "none", data |-> RequestData]

\* A tool that is mounted and never called.
StoreIdle ==
    /\ coordinator = [config |-> "none", session_id |-> Absent]
    /\ dir_exists = FALSE
    /\ files = NoFiles
    /\ clock = 0
    /\ invocation = NoInput
    /\ tool_result = NoToolResult
    /\ calls = 0
    /\ ticks = 0
    /\ last_save = NoSave
    /\ Quiet

\* A tracker that is mounted with the defaults and never called.
GuardianIdle ==
    /\ context_window = DefaultConfig.context_window
    /\ soft_threshold = DefaultConfig.soft_threshold
    /\ hard_threshold = DefaultConfig.hard_threshold
    /\ latest_input_tokens = 0
    /\ cumulative_output_tokens = 0
    /\ turn_count = 0
    /\ event = NoEvent
    /\ result = NoResult
    /\ history = <<>>
    /\ Mounted

\* TokenTracker.__init__ on one of Configs.
Init ==
    /\ \E c \in Configs :
          /\ context_window = c.context_window
          /\ soft_threshold = c.soft_threshold
          /\ hard_threshold = c.hard_threshold
    /\ latest_input_tokens = 0
    /\ cumulative_output_tokens = 0
    /\ turn_count = 0
    /\ event = NoEvent
    /\ result = NoResult
    /\ history = <<>>
    /\ Mounted
    /\ StoreIdle

Next == ProviderResponse \/ ProviderRequest

Spec == Init /\ [][Next]_vars

\* The token counts a tracker of window cw can hold at whole hundredths of it.
BandTokens(cw) ==
    IF cw.t = "int" /\ cw.v >= 100
    THEN {k * (cw.v \div 100) : k \in 0..MaxPct}
    ELSE 0..MaxPct

\* Any tracker a session can have reached when a request arrives: any
\* configuration of BandConfigs, any latest_input_tokens, before or after the
\* first counted turn.
BandInit ==
    /\ \E c \in BandConfigs :
          /\ context_window = c.context_window
          /\ soft_threshold = c.soft_threshold
          /\ hard_threshold = c.hard_threshold
    /\ latest_input_tokens \in BandTokens(context_window)
    /\ turn_count \in 0..1
    /\ cumulative_output_tokens \in (IF turn_count = 0 THEN {0} ELSE OutputCounts)
    /\ event = NoEvent
    /\ result = NoResult
    /\ history = <<>>
    /\ Mounted
    /\ StoreIdle

BandNext == ProviderRequest

BandSpec == BandInit /\ [][BandNext]_vars

\* The host before it mounts the guardian: no tracker, no registration.
MountInit ==
    /\ context_window = Missing
    /\ soft_threshold = Missing
    /\ hard_threshold = Missing
    /\ latest_input_tokens = 0
    /\ cumulative_output_tokens = 0
    /\ turn_count = 0
    /\ event = NoEvent
    /\ result = NoResult
    /\ history = <<>>
    /\ hooks = {}
    /\ cleanup = "none"
    /\ StoreIdle

MountNext == Mount \/ EmitResponse \/ EmitRequest \/ Cleanup

MountSpec == MountInit /\ [][MountNext]_vars

\* The tool on an absent or empty state directory.
StoreInit ==
    /\ GuardianIdle
    /\ coordinator \in Coordinators
    /\ dir_exists \in BOOLEAN
    /\ files = NoFiles
    /\ clock = 0
    /\ invocation = NoInput
    /\ tool_result = NoToolResult
    /\ calls = 0
    /\ ticks = 0
    /\ last_save = NoSave
    /\ Quiet

StoreNext == Execute \/ Tick

StoreSpec == StoreInit /\ [][StoreNext]_vars

\* A valid save of an earlier session.
EarlierSave == ToolInput("save_state", S("s0"), L(<<"a">>), L(<<"r">>), Absent, Absent)

\* The clock of DirInit, and the instants of the earlier saves: two of them more
\* than the retention window before it, one exactly the window before it, one
\* within the window.
DirClock == PruneWindow + 2 * TicksPerSecond
Instants == {0, TicksPerSecond, DirClock - PruneWindow, DirClock - TicksPerSecond}

\* The file a save of EarlierSave at instant t wrote.
Snapshot(t) ==
    [text |-> JsonDumps(BuildState(EarlierSave, t)) \o <<Newline>>,
     mtime |-> t, readable |-> TRUE]

\* What can have happened to a snapshot file since it was written.
Damages == {"malformed", "undecodable", "unreadable"}
Damaged(file, how) ==
    IF how = "malformed" THEN [file EXCEPT !.text = Malformed]
    ELSE IF how = "undecodable" THEN [file EXCEPT !.text = Undecodable]
    ELSE [file EXCEPT !.readable = FALSE]

\* The directory holding the snapshots written at the instants ts, those of bad
\* damaged.
Directory(ts, bad, how) ==
    [n \in {FileName(t) : t \in ts} |->
        LET t == CHOOSE u \in ts : FileName(u) = n
        IN IF t \in bad THEN Damaged(Snapshot(t), how) ELSE Snapshot(t)]

\* The tool before one call, on a state directory that earlier sessions have
\* filled: any of the earlier snapshots, at most one of them damaged.
DirInit ==
    /\ GuardianIdle
    /\ coordinator \in Coordinators
    /\ dir_exists = TRUE
    /\ \E ts \in SUBSET Instants, how \in Damages :
          \E bad \in SUBSET ts :
              /\ Cardinality(bad) <= 1
              /\ files = Directory(ts, bad, how)
    /\ clock = DirClock
    /\ invocation = NoInput
    /\ tool_result = NoToolResult
    /\ calls = MaxCalls - 1
    /\ ticks = MaxTicks
    /\ last_save = NoSave
    /\ Quiet

DirNext == Execute

DirSpec == DirInit /\ [][DirNext]_vars

\* The earlier saves behind the directory of ConcInit: two more than the
\* retention window ago, one within it.
ConcInstants == {0, TicksPerSecond, DirClock - TicksPerSecond}

\* Calls about to run side by side on a state directory that earlier sessions
\* have filled: any of the earlier snapshots, undamaged.
ConcInit ==
    /\ GuardianIdle
    /\ coordinator = [config |-> "none", session_id |-> Absent]
    /\ dir_exists = TRUE
    /\ \E ts \in SUBSET ConcInstants : files = Directory(ts, {}, "malformed")
    /\ clock = DirClock
    /\ invocation = NoInput
    /\ tool_result = NoToolResult
    /\ calls = 0
    /\ ticks = 0
    /\ last_save = NoSave
    /\ Quiet

ConcNext ==
    \E p \in Invocations :
        Begin(p) \/ Glob(p) \/ Stat(p) \/ Unlink(p) \/ Read(p) \/ StatEntry(p)

ConcSpec == ConcInit /\ [][ConcNext]_vars

----------------------------------------------------------------------------
(* Claims about the tracker *)

RECURSIVE LastPositive(_)
\* The input count of the most recent response event that reported a positive one.
LastPositive(h) ==
    IF h = <<>> THEN 0
    ELSE IF h[Len(h)][1] > 0 THEN h[Len(h)][1]
    ELSE LastPositive(SubSeq(h, 1, Len(h) - 1))

RECURSIVE SumOutputs(_)
SumOutputs(h) == IF h = <<>> THEN 0 ELSE h[Len(h)][2] + SumOutputs(SubSeq(h, 1, Len(h) - 1))

Inputs(h) == [i \in 1..Len(h) |-> h[i][1]]

\* context_window > 0 and 0 < soft < hard <= 1.
ValidConfig ==
    /\ context_window.t = "int" /\ soft_threshold.t = "int" /\ hard_threshold.t = "int"
    /\ context_window.v > 0
    /\ 0 < soft_threshold.v /\ soft_threshold.v < hard_threshold.v
    /\ hard_threshold.v <= 100

NumericConfig ==
    context_window.t = "int" /\ soft_threshold.t = "int" /\ hard_threshold.t = "int"

Injects(r) ==
    /\ r.action = "inject_context"
    /\ r.context_injection # NoMsg
    /\ r.context_injection_role = "system"
    /\ r.ephemeral = "True"

IsInformational(r) ==
    Injects(r) /\ r.context_injection.text = "context used, turn" /\ r.user_message = NoMsg
IsSoft(r) ==
    /\ Injects(r) /\ r.context_injection.text = "save progress"
    /\ r.user_message # NoMsg /\ r.user_message_level = "warning"
IsHard(r) ==
    /\ Injects(r) /\ r.context_injection.text = "HANDOFF REQUIRED"
    /\ r.user_message # NoMsg /\ r.user_message_level = "error"

\* r is the band of a usage of n tokens under the (valid) configuration.
BandAt(n, r) ==
    LET p == 100 * n
        soft == soft_threshold.v * context_window.v
        hard == hard_threshold.v * context_window.v
    IN /\ p < soft => IsInformational(r)
       /\ (soft <= p /\ p < hard) => IsSoft(r)
       /\ p >= hard => IsHard(r)

RequestHandled == event.hook = "provider:request"
ResponseHandled == event.hook = "provider:response"

\* C1: under a valid configuration a request selects the band of
\* latest_input_tokens / context_window: below soft the status injection with no
\* user message, from soft (included) to hard (excluded) the warning, from hard
\* (included) on the error.
BandSelection == (RequestHandled /\ ValidConfig) => BandAt(latest_input_tokens, result)

\* A request answered at usage_pct == soft_threshold with the soft band.
BandSelectionWitness ==
    /\ RequestHandled /\ ValidConfig
    /\ 100 * latest_input_tokens = soft_threshold.v * context_window.v
    /\ IsSoft(result)

\* C2: latest_input_tokens is the input count of the most recent response event
\* that reported a positive one (0 if none did): overwritten, never added to.
LatestIsLastPositive == latest_input_tokens = LastPositive(history)

\* Inputs 45, 0, 60 end at 60, not 105.
LatestIsLastPositiveWitness ==
    /\ Inputs(history) = <<45, 0, 60>>
    /\ latest_input_tokens = 60

\* C3: cumulative_output_tokens is the sum of the output counts of all response
\* events so far (on a validly configured tracker).
CumulativeIsSumOfOutputs ==
    ValidConfig => cumulative_output_tokens = SumOutputs(history)

\* C4: after n response events turn_count = n, whatever their payloads (on a
\* validly configured tracker).
TurnCountIsEventCount == ValidConfig => turn_count = Len(history)

\* C5: the band a request returns is the band of the most recent positive input
\* observation, whatever came before it and whatever cumulative_output_tokens and
\* turn_count are; with context_window = 100, soft = 0.5, hard = 0.8 an input of
\* 45 gives the informational band showing 45%, 60 the soft band, 85 the hard band.
BandFollowsLatestObservation ==
    (RequestHandled /\ ValidConfig) =>
        LET n == LastPositive(history)
        IN /\ BandAt(n, result)
           /\ (context_window.v = 100 /\ soft_threshold.v = 50 /\ hard_threshold.v = 80) =>
                 /\ n = 45 => IsInformational(result) /\ result.context_injection.pct = 45
                 /\ n = 60 => IsSoft(result)
                 /\ n = 85 => IsHard(result)

\* Responses reporting 45, 60, 85 and then a request in the hard band.
BandFollowsLatestObservationWitness ==
    /\ RequestHandled /\ context_window = PyInt(100)
    /\ Inputs(history) = <<45, 60, 85>>
    /\ cumulative_output_tokens > 0
    /\ IsHard(result)

\* C6: the response handler returns "continue" for every payload and lets no
\* exception out.
ResponseAlwaysContinues == ResponseHandled => result = Continue

\* A response whose counter update raised inside the handler.
ResponseAlwaysContinuesWitness ==
    /\ ResponseHandled /\ event.data.kind = "dict"
    /\ event.data.usage.shape = "dict"
    /\ event.data.usage.output_tokens = Str
    /\ result = Continue

\* C7: when one of input_tokens / output_tokens is missing or wrongly shaped it
\* counts as 0 and the other field's value is still applied, with no exception.
PerFieldDegradation ==
    [][ LET usage == event'.data.usage
            input == Count(usage.input_tokens)
            output == Count(usage.output_tokens)
        IN ( /\ ValidConfig
             /\ Len(history') = Len(history) + 1
             /\ event'.data.kind = "dict"
             /\ usage.shape \in {"dict", "object"}
             /\ usage.input_tokens.t # "int" \/ usage.output_tokens.t # "int" )
           => /\ latest_input_tokens' = IF input > 0 THEN input ELSE latest_input_tokens
              /\ cumulative_output_tokens' = cumulative_output_tokens + output
              /\ result' = Continue ]_vars

\* C8: a request gets an ephemeral system-role injection, or, when the band
\* computation fails (a configured value is not a number), the plain "continue"
\* result; never an exception.
RequestNeverBlocks ==
    RequestHandled =>
        \/ Injects(result)
        \/ result = Continue /\ ~NumericConfig

\* A request on a tracker whose configuration makes the computation raise.
RequestNeverBlocksWitness == RequestHandled /\ ~NumericConfig /\ result = Continue

----------------------------------------------------------------------------
(* Claims about the session state tool *)

RequiredNames == {"summary", "accomplished", "remaining"}

\* A field that is missing or empty.
MissingOrEmpty(v) == v = Absent \/ v = S("") \/ v = L(<<>>)
MissingSet(input) == {f \in RequiredNames : MissingOrEmpty(input[f])}
Range(seq) == {seq[i] : i \in 1..Len(seq)}

\* The value of member key in a JSON text, Absent if it has none.
Lookup(text, key) ==
    LET at == {i \in 1..Len(text) : IsMember(text[i]) /\ text[i].key = key}
    IN IF at = {} THEN Absent ELSE text[CHOOSE i \in at : TRUE].value

\* An optional field as a snapshot holds it: only when provided and non-empty.
Kept(v) == IF MissingOrEmpty(v) THEN Absent ELSE v

\* C16: before mount nothing is registered; from mount until cleanup is called
\* exactly two handlers are, guardian_tracker on provider:response and
\* guardian_injector on provider:request; the request handler answers from the
\* tracker the response handler filled (the band of the last positive input
\* count reported); once cleanup was called neither handler is registered.
MountRegistersBothHandlers ==
    /\ cleanup = "none" => hooks = {}
    /\ cleanup = "returned" =>
          /\ Cardinality(hooks) = 2
          /\ {<<h.name, h.event>> : h \in hooks} =
                {<<"guardian_tracker", "provider:response">>,
                 <<"guardian_injector", "provider:request">>}
    /\ cleanup = "called" => hooks = {}
    /\ (RequestHandled /\ ValidConfig) =>
          /\ latest_input_tokens = LastPositive(history)
          /\ BandAt(LastPositive(history), result)

\* A guardian mounted on a window of 100 whose response handler saw 85 tokens
\* and whose request handler answered in the hard band, after cleanup.
MountRegistersBothHandlersWitness ==
    /\ cleanup = "called"
    /\ hooks = {}
    /\ RequestHandled
    /\ context_window = PyInt(100)
    /\ LastPositive(history) = 85
    /\ IsHard(result)

\* C9: a save with summary, accomplished or remaining missing or empty returns a
\* validation error naming exactly the missing fields, and the state directory
\* and its files are as they were before the call.
ValidationLeavesDisk ==
    [][ ( /\ calls' = calls + 1
          /\ invocation'.operation = "save_state"
          /\ MissingSet(invocation') # {} )
        => /\ tool_result'.output = Absent
           /\ tool_result'.error # Absent
           /\ tool_result'.error.msg = "save_state requires"
           /\ Range(tool_result'.error.fields) = MissingSet(invocation')
           /\ dir_exists' = dir_exists
           /\ files' = files ]_vars

\* A save without remaining, answered by the error naming remaining, with the
\* state directory still absent.
ValidationLeavesDiskWitness ==
    /\ invocation.operation = "save_state"
    /\ MissingSet(invocation) = {"remaining"}
    /\ tool_result.error # Absent
    /\ tool_result.error.fields = <<"remaining">>
    /\ ~dir_exists
    /\ files = NoFiles

\* The last successful save found the state directory absent or empty.
SavedIntoEmpty == last_save.input.operation = "save_state" /\ last_save.before = 0

\* C10: after a successful save into an absent or empty state directory, a
\* load_state right after it returns the snapshot of that save, every provided
\* field unchanged, and a list_states after that reports exactly one entry.
RoundTrip ==
    SavedIntoEmpty =>
        /\ last_save.since = <<"load_state">> =>
              LET out == tool_result.output
                  input == last_save.input
              IN /\ tool_result.error = Absent
                 /\ Lookup(out, "version") = [int |-> SCHEMA_VERSION]
                 /\ Lookup(out, "timestamp") = [iso |-> last_save.at]
                 /\ Lookup(out, "summary") = input.summary
                 /\ Lookup(out, "accomplished") = input.accomplished
                 /\ Lookup(out, "remaining") = input.remaining
                 /\ Lookup(out, "decisions") = Kept(input.decisions)
                 /\ Lookup(out, "context") = Kept(input.context)
                 /\ Lookup(out, "session_id") = coordinator.session_id
        /\ last_save.since \in {<<"list_states">>, <<"load_state", "list_states">>} =>
              /\ tool_result.error = Absent
              /\ tool_result.output.msg = "Found state file(s)"
              /\ tool_result.output.count = 1
              /\ Len(tool_result.output.entries) = 1
              /\ tool_result.output.entries[1].name = FileName(last_save.at)

\* A save with a context into an absent directory, then load_state, then
\* list_states reporting one entry.
RoundTripWitness ==
    /\ SavedIntoEmpty
    /\ last_save.input.context = SomeContext
    /\ last_save.since = <<"load_state", "list_states">>
    /\ tool_result.output.count = 1

\* The step is a call of the tool that is a successful save.
SaveSucceeds == calls' = calls + 1 /\ SavedOk(invocation', tool_result')

\* The files older than the retention window at the instant now.
Older(fs, now) == {n \in Names(fs) : now - fs[n].mtime > PruneWindow}

\* The prune count a save result reports, 0 when it reports none.
ReportedPruned(r) == IF "pruned" \in DOMAIN r.output THEN r.output.pruned ELSE 0

\* C11 as stated: a successful save deletes exactly the files older than the
\* retention window and reports their number.
PruningDeletesEveryOldFile ==
    [][ SaveSucceeds =>
          /\ Names(files') = (Names(files) \ Older(files, clock)) \cup {FileName(clock)}
          /\ ReportedPruned(tool_result') = Cardinality(Older(files, clock)) ]_vars

\* C11: on a successful save, the files deleted are exactly the files older
\* than the retention window whose deletion did not fail (all of them when no
\* deletion fails); every other file and the newly written file remain, the
\* others unchanged; the result reports the number of files deleted, and reports
\* no count when none was deleted.
PruningIsExact ==
    [][ SaveSucceeds =>
          LET old == Older(files, clock)
              deleted == Names(files) \ Names(files')
          IN /\ deleted = old \ last_save'.failed
             /\ FileName(clock) \in Names(files')
             /\ \A n \in Names(files) \ (old \cup {FileName(clock)}) :
                    n \in Names(files') /\ files'[n] = files[n]
             /\ ReportedPruned(tool_result') = Cardinality(deleted)
             /\ ("pruned" \in DOMAIN tool_result'.output) <=> deleted # {} ]_vars

\* A save on four snapshots, two of them older than the window: both deleted
\* and counted, the one written exactly the window ago and the recent one kept.
PruningIsExactWitness ==
    /\ last_save.input \in ValidSaves
    /\ last_save.since = <<>>
    /\ last_save.before = 4
    /\ last_save.failed = {}
    /\ ReportedPruned(tool_result) = 2
    /\ Names(files) = {FileName(DirClock - PruneWindow),
                       FileName(DirClock - TicksPerSecond), FileName(DirClock)}

\* The step is a call that wrote the snapshot of its input.
SnapshotWritten ==
    /\ calls' = calls + 1
    /\ invocation' \in ValidSaves
    /\ FileName(clock) \in Names(files')
    /\ files'[FileName(clock)].text = JsonDumps(BuildState(invocation', clock)) \o <<Newline>>

\* The files older than the retention window that the step left on disk.
Survivors == Older(files, clock) \cap Names(files')

\* C12: when a deletion fails in the pruning pass of a save, the save still
\* returns success with its destination path and its snapshot is on disk; the
\* files left are exactly those whose deletion failed, every other old file
\* having been deleted, and the count reported is the number deleted.
FailedPruneKeepsSave ==
    [][ (SnapshotWritten /\ Survivors # {}) =>
          /\ tool_result'.error = Absent
          /\ tool_result'.output.msg = "State saved to"
          /\ tool_result'.output.path = FileName(clock)
          /\ Survivors = last_save'.failed
          /\ ReportedPruned(tool_result') =
                Cardinality(Older(files, clock)) - Cardinality(Survivors) ]_vars

\* A save with two old files on disk: the deletion of one failed, the other
\* was deleted and is the one counted.
FailedPruneKeepsSaveWitness ==
    /\ last_save.input \in ValidSaves
    /\ last_save.since = <<>>
    /\ Cardinality(last_save.failed) = 1
    /\ last_save.failed \subseteq Names(files)
    /\ tool_result.error = Absent
    /\ ReportedPruned(tool_result) = 1
    /\ FileName(DirClock) \in Names(files)

\* C13: load_state with the state directory absent, or present without a
\* snapshot file, returns the fresh-session message of that case as output, with
\* no error, and the directory and its files are as before the call.
LoadOnEmptyIsInformational ==
    [][ ( /\ calls' = calls + 1
          /\ invocation'.operation = "load_state"
          /\ (~dir_exists \/ Names(files) = {}) )
        => /\ tool_result'.error = Absent
           /\ tool_result'.output =
                 [msg |-> IF dir_exists THEN NoFilesFresh ELSE NoDirectoryFresh]
           /\ dir_exists' = dir_exists
           /\ files' = files ]_vars

\* A load on an absent state directory, answered by the fresh-session message,
\* the directory still absent.
LoadOnEmptyIsInformationalWitness ==
    /\ invocation.operation = "load_state"
    /\ ~dir_exists
    /\ files = NoFiles
    /\ tool_result = Output([msg |-> NoDirectoryFresh])

\* A file that is not a readable snapshot: invalid JSON, bytes that are not
\* UTF-8, or a file that cannot be read.
Unusable(file) == ~file.readable \/ file.text \in {Malformed, Undecodable}

\* C14: a load_state whose last-sorted file is malformed or unreadable returns,
\* without output, the read error that names that file.
DamagedLatestIsReadError ==
    [][ ( /\ calls' = calls + 1
          /\ invocation'.operation = "load_state"
          /\ dir_exists
          /\ Names(files) # {}
          /\ Unusable(files[Max(Names(files))]) )
        => /\ tool_result'.output = Absent
           /\ tool_result'.error = [msg |-> "Failed to read", path |-> Max(Names(files))] ]_vars

\* C15: every call of execute returns a result with either an output or an
\* error, never both and never an exception; an operation other than
\* save_state, load_state and list_states (a missing one reads as None) gets
\* the "Unknown operation" error naming it and leaves the directory and its
\* files as they were; an error raised inside an operation comes back as the
\* "<operation> failed" error of that operation, carrying the reason.
DispatchNeverCrashes ==
    [][ calls' = calls + 1 =>
          /\ DOMAIN tool_result' = {"output", "error"}
          /\ (tool_result'.output = Absent) # (tool_result'.error = Absent)
          /\ invocation'.operation \notin Operations =>
                /\ tool_result'.error =
                      [msg |-> "Unknown operation", operation |-> invocation'.operation]
                /\ dir_exists' = dir_exists
                /\ files' = files
          /\ invocation' \in ValidSaves =>
                \/ tool_result'.error = Absent
                \/ /\ tool_result'.error =
                         [msg |-> "session_state failed", operation |-> "save_state",
                          exc |-> "OSError"]
                   /\ files' = files
          /\ (invocation'.operation \in Operations /\ invocation' \notin ValidSaves) =>
                \/ tool_result'.error = Absent
                \/ tool_result'.error.msg \in {"save_state requires", "Failed to read"}
                \/ tool_result'.error =
                      [msg |-> "session_state failed", operation |-> invocation'.operation,
                       exc |-> "UnicodeDecodeError"] ]_vars

\* A valid save whose write raised OSError, answered by the "save_state failed"
\* error.
DispatchNeverCrashesWitness ==
    /\ invocation \in ValidSaves
    /\ tool_result = Error([msg |-> "session_state failed", operation |-> "save_state",
                            exc |-> "OSError"])

\* The document of the last successful save.
LastSnapshot == JsonDumps(BuildState(last_save.input, last_save.at))

\* C17: after any sequence of calls with a successful save among them, the file
\* whose name sorts last is the file of the last successful save, holds its
\* snapshot and has the latest modification time in the directory (pruning has
\* not removed it), and a load_state since that save returned that snapshot.
LatestIsLastSave ==
    last_save.input.operation = "save_state" =>
        /\ dir_exists
        /\ Names(files) # {}
        /\ Max(Names(files)) = FileName(last_save.at)
        /\ files[Max(Names(files))].text = LastSnapshot \o <<Newline>>
        /\ \A n \in Names(files) : files[n].mtime <= files[Max(Names(files))].mtime
        /\ (last_save.since # <<>> /\ last_save.since[Len(last_save.since)] = "load_state")
              => tool_result = Output(LastSnapshot)

\* Two snapshots of different seconds on disk, and a load_state that returned
\* the one saved last.
LatestIsLastSaveWitness ==
    /\ last_save.input \in ValidSaves
    /\ last_save.at = TicksPerSecond
    /\ Names(files) = {FileName(0), FileName(TicksPerSecond)}
    /\ last_save.since = <<"load_state">>
    /\ tool_result = Output(LastSnapshot)

\* The UTC second of an instant.
Second(t) == t \div TicksPerSecond

\* C18: a successful save in the same second as the successful save before it
\* reports the same path as that save did and adds no file to the directory;
\* the file at that path, which is the last-sorted one load_state reads, holds
\* its own snapshot, and no file of the directory holds the earlier snapshot
\* any more.
SameSecondLastWriteWins ==
    [][ ( /\ SaveSucceeds
          /\ last_save.input.operation = "save_state"
          /\ Second(last_save.at) = Second(clock) )
        => /\ tool_result'.output.path = last_save.path
           /\ last_save.path \in Names(files)
           /\ Names(files') \subseteq Names(files)
           /\ files'[last_save.path].text =
                 JsonDumps(BuildState(invocation', clock)) \o <<Newline>>
           /\ Max(Names(files')) = last_save.path
           /\ LastSnapshot # JsonDumps(BuildState(invocation', clock)) =>
                 \A n \in Names(files') : files'[n].text # LastSnapshot \o <<Newline>> ]_vars

\* A second save half a second after the first, into the directory that held
\* the first one's file: still one file, holding the second snapshot.
SameSecondLastWriteWinsWitness ==
    /\ last_save.input \in ValidSaves
    /\ last_save.since = <<>>
    /\ last_save.at = 1
    /\ last_save.before = 1
    /\ Names(files) = {last_save.path}
    /\ files[last_save.path].text = LastSnapshot \o <<Newline>>

\* The calls that have returned.
Done == {p \in Invocations : invocations[p].pc = "done"}

\* C19: every call run side by side with others returns a result without an
\* error.
ConcurrentCallsSucceed == \A p \in Done : invocations[p].result.error = Absent

RECURSIVE SumOver(_, _)
\* The sum of f[p] over the calls ps.
SumOver(f, ps) ==
    IF ps = {} THEN 0
    ELSE LET p == CHOOSE q \in ps : TRUE IN f[p] + SumOver(f, ps \ {p})

\* The saves that have returned.
SavesDone == {p \in Done : invocations[p].input.operation = "save_state"}

\* C20: with saves pruning side by side, the counts of the passes add up to the
\* number of files deleted so far; every save that returns reports success, its
\* path and the count of its own pass, so that once all have returned the
\* reported counts add up to the number of files deleted.
PruneCountsAddUp ==
    /\ SumOver([p \in Invocations |-> invocations[p].pruned], Invocations)
          = Cardinality(removed)
    /\ \A p \in SavesDone :
          /\ invocations[p].result.error = Absent
          /\ invocations[p].result.output.path = FileName(clock)
          /\ ReportedPruned(invocations[p].result) = invocations[p].pruned
    /\ Done = Invocations =>
          SumOver([p \in Invocations |-> ReportedPruned(invocations[p].result)], SavesDone)
            = Cardinality(removed)

\* Two saves have returned; one old file was deleted, by the pass that counted
\* it, and the other pass found it gone at unlink and counted nothing.
PruneCountsAddUpWitness ==
    /\ SavesDone = Invocations
    /\ Cardinality(removed) = 1
    /\ \E p \in Invocations, q \in Invocations :
          /\ invocations[p].pruned = 1
          /\ invocations[q].pruned = 0
          /\ invocations[q].swallowed = 1

=============================================================================
